---- MODULE Spec2Model ----
(***************************************************************************)
(* A model of experiment3.py: three UCB bandit policies (known variance,   *)
(* unknown variance, standard), the trial loop that runs each of them      *)
(* N_EXPERIMENTS times on one generated instance, and the pointwise        *)
(* mean / standard deviation of the regret traces.                         *)
(*                                                                         *)
(* Numbers.  A Python float is modelled as an exact rational <<num, den>>  *)
(* in lowest terms with den > 0; np.inf is <<1, 0>>.  +, -, *, / are       *)
(* exact.  np.sqrt and np.log are computed to a limited precision with     *)
(* integer arithmetic (RSqrt, RLog); they are exact on the perfect squares *)
(* the instances use.  Arrays are functions on 0..K-1 and 0..T, as the     *)
(* 0-based numpy arrays are.                                               *)
(*                                                                         *)
(* File-system effects (os.makedirs, to_csv, savefig) and the plot are     *)
(* outside the model: OUTPUT_DIR is taken to name a directory that can be  *)
(* created.  (With the empty string of line 16, os.makedirs raises         *)
(* FileNotFoundError right after the command line is parsed.)              *)
(***************************************************************************)
EXTENDS Integers, Sequences, FiniteSets, Bags, TLC

(***************************************************************************)
(* Bounds of the model.                                                    *)
(***************************************************************************)
\* largest --K the command line is given (the smallest is -1)
MaxK == 2
\* largest horizon T of a run of the whole script
MaxT == 3
\* largest number of trials N_EXPERIMENTS
MaxN == 2
\* largest horizon of a direct call of the policies on an injected instance
UnitT == 4
\* horizon of the long single-arm run (beyond 8*ln(T) pulls the correction
\* of the unknown-variance policy is no longer clamped)
LongT == 28

(***************************************************************************)
(* Rational arithmetic.                                                    *)
(***************************************************************************)
MaxInt == 2147483647

Abs(n) == IF n < 0 THEN -n ELSE n

RECURSIVE GCD(_, _)
GCD(a, b) == IF b = 0 THEN a ELSE GCD(b, a % b)

Rat(n, d) ==
    LET g == GCD(Abs(n), Abs(d))
        s == IF d < 0 THEN -1 ELSE 1
    IN  <<s * (n \div g), s * (d \div g)>>

RInt(k) == <<k, 1>>

Zero == <<0, 1>>

One == <<1, 1>>

\* np.inf
Inf == <<1, 0>>

RNeg(x) == <<-x[1], x[2]>>

RAdd(x, y) ==
    LET g == GCD(x[2], y[2])
    IN  Rat(x[1] * (y[2] \div g) + y[1] * (x[2] \div g), (x[2] \div g) * y[2])

RSub(x, y) == RAdd(x, RNeg(y))

RMul(x, y) ==
    LET g1 == GCD(Abs(x[1]), y[2])
        g2 == GCD(Abs(y[1]), x[2])
    IN  Rat((x[1] \div g1) * (y[1] \div g2), (x[2] \div g2) * (y[2] \div g1))

\* x / y for y # 0
RDiv(x, y) ==
    RMul(x, IF y[1] < 0 THEN <<-y[2], -y[1]>> ELSE <<y[2], y[1]>>)

\* x < y on finite rationals
RLt(x, y) ==
    LET g == GCD(x[2], y[2])
    IN  x[1] * (y[2] \div g) < y[1] * (x[2] \div g)

RLe(x, y) == ~RLt(y, x)

\* Python's max(x, y) on finite floats
RMax(x, y) == IF RLt(x, y) THEN y ELSE x

\* x > y where either may be np.inf
Gt(x, y) ==
    IF x = Inf THEN y # Inf
    ELSE IF y = Inf THEN FALSE
    ELSE RLt(y, x)

\* floor(sqrt(n)) for 0 <= n <= MaxInt, by bisection on lo <= sqrt(n) < hi
RECURSIVE ISqrtIn(_, _, _)
ISqrtIn(n, lo, hi) ==
    IF hi - lo <= 1 THEN lo
    ELSE LET mid == (lo + hi) \div 2
         IN  IF mid * mid <= n THEN ISqrtIn(n, mid, hi) ELSE ISqrtIn(n, lo, mid)

ISqrt(n) == ISqrtIn(n, 0, 46341)

\* the number of decimals np.sqrt is computed to: the most (3, 2, 1 or 0)
\* that keeps floor(x * 10^(2k)) within the integers of the model
SqrtScale(x) ==
    LET fits(s) == /\ s * s <= MaxInt \div ((x[1] \div x[2]) + 1)
                   /\ s * s <= MaxInt \div x[2]
    IN  IF fits(1000) THEN 1000
        ELSE IF fits(100) THEN 100
        ELSE IF fits(10) THEN 10
        ELSE 1

\* np.sqrt(x) for x >= 0, rounded down to SqrtScale(x) decimals
RSqrt(x) ==
    LET s == SqrtScale(x)
        w == (x[1] \div x[2]) * (s * s) + ((x[1] % x[2]) * (s * s)) \div x[2]
    IN  Rat(ISqrt(w), s)

\* ln(2) and the scale of RLog, four decimals
LogScale == 10000

Ln2 == 6931

RECURSIVE Log2Floor(_)
Log2Floor(n) == IF n < 2 THEN 0 ELSE 1 + Log2Floor(n \div 2)

RECURSIVE Pow2(_)
Pow2(k) == IF k = 0 THEN 1 ELSE 2 * Pow2(k - 1)

\* np.log(n) for an integer n >= 1, to four decimals:
\* n = 2^k * m with 1 <= m < 2,  ln(n) = k*ln(2) + 2*atanh((m-1)/(m+1))
RLog(n) ==
    LET k  == Log2Floor(n)
        p  == Pow2(k)
        y  == ((n - p) * LogScale) \div (n + p)
        y2 == (y * y) \div LogScale
        y3 == (y * y2) \div LogScale
        y5 == (y3 * y2) \div LogScale
        y7 == (y5 * y2) \div LogScale
        y9 == (y7 * y2) \div LogScale
    IN  Rat(k * Ln2 + 2 * (y + y3 \div 3 + y5 \div 5 + y7 \div 7 + y9 \div 9),
            LogScale)

(***************************************************************************)
(* Inputs the model draws from.                                            *)
(***************************************************************************)
\* values of --var tried on the command line; "extreme" is not a choice
VarArgs == {"low", "medium", "high", "extreme"}

\* true means np.random.uniform(0, 1) may return
MeanVals == {<<1, 5>>, <<4, 5>>}

\* true variances np.random.uniform(vmin, vmax) may return: the perfect
\* squares of the range, whose np.sqrt is exact
VarVals(lo, hi) == {RInt(v) : v \in {w \in 1..50 : lo <= w /\ w < hi /\ ISqrt(w) * ISqrt(w) = w}}

\* true variances of an instance handed to the policies directly
InjectedVarVals == {Zero, One}

\* standard normal draws behind np.random.normal
Noise == {-1, 0, 1}

(***************************************************************************)
(* State.                                                                  *)
(***************************************************************************)
VARIABLES
    pc,                 \* where the script is
    args,               \* the parsed command line: [K, var]
    T,                  \* horizon
    N_EXPERIMENTS,      \* number of trials
    K, vmin, vmax,      \* parameter settings
    means, variances, best_arm,     \* the problem instance
    i,                  \* trial index of the experiment loop
    t,                  \* rounds of the running policy call completed
    counts, emp_means, emp_vars, M2, regret,    \* locals of the policy call
    known_regrets, unknown_regrets, standard_regrets,
    known_avg, known_std, unknown_avg, unknown_std, standard_avg, standard_std,
    pulls,              \* history: the arm chosen in each round of the call
    samples,            \* history: per arm, the bag of rewards drawn from it
    correction          \* per pulled arm, the n and correction of its last index

instance == <<means, variances, best_arm>>

settings == <<args, T, N_EXPERIMENTS, K, vmin, vmax>>

locals == <<t, counts, emp_means, emp_vars, M2, regret, pulls, samples, correction>>

matrices == <<known_regrets, unknown_regrets, standard_regrets>>

aggregates == <<known_avg, known_std, unknown_avg, unknown_std, standard_avg, standard_std>>

vars == <<pc, settings, instance, i, locals, matrices, aggregates>>

(***************************************************************************)
(* Helpers of the script.                                                  *)
(***************************************************************************)
\* range(abs(n)): a negative count taken for its size
range_abs(n) == 0..(Abs(n) - 1)

\* Python's range(n)
range(n) == 0..(n - 1)

\* argparse choices of --var
choices == {"low", "medium", "high"}

variance_levels ==
    [low |-> <<1, 5>>, medium |-> <<5, 20>>, high |-> <<20, 50>>]

\* np.argmax raises ValueError on an empty sequence
ArgMaxRaises(v) == DOMAIN v = {}

\* the last index holding the maximum
ArgMaxLast(v) ==
    CHOOSE a \in DOMAIN v :
        /\ \A b \in DOMAIN v : ~Gt(v[b], v[a])
        /\ \A b \in DOMAIN v : b > a => Gt(v[a], v[b])

\* np.argmax: the first index holding the maximum
ArgMax(v) ==
    CHOOSE a \in DOMAIN v :
        /\ \A b \in DOMAIN v : ~Gt(v[b], v[a])
        /\ \A b \in DOMAIN v : b < a => Gt(v[a], v[b])

\* np.random.normal(loc, scale) with standard normal draw z
Normal(loc, scale, z) == RAdd(loc, RMul(scale, RInt(z)))

\* np.zeros(n), np.ones(n)
zeros(S) == [a \in S |-> Zero]

ones(S) == [a \in S |-> One]

\* the floor of the correction factor, 1e-6
Eps == <<1, 1000000>>

\* 1 - 2 * np.sqrt((2 * np.log(T)) / n)
Shrinkage(n) ==
    RSub(One, RMul(RInt(2), RSqrt(RDiv(RMul(RInt(2), RLog(T)), RInt(n)))))

\* the correction without its floor
CorrectionUnclamped(n) == Shrinkage(n)

\* max(1 - 2 * np.sqrt((2 * np.log(T)) / n), 1e-6)
Correction(n) == RMax(Shrinkage(n), Eps)

\* an arm that was never pulled given index 0
UnpulledZero == Zero

\* index of an arm that was never pulled
Unpulled == Inf

\* the index of known_variance_ucb without its empirical mean
known_ucb_values_no_mean ==
    [a \in range(K) |->
        IF counts[a] = 0 THEN Unpulled
        ELSE RSqrt(RDiv(RMul(RMul(RInt(4), variances[a]), RLog(T)),
                        RInt(counts[a])))]

known_ucb_values ==
    [a \in range(K) |->
        IF counts[a] = 0 THEN Unpulled
        ELSE RAdd(emp_means[a],
                  RSqrt(RDiv(RMul(RMul(RInt(4), variances[a]), RLog(T)),
                             RInt(counts[a]))))]

unknown_ucb_values ==
    [a \in range(K) |->
        IF counts[a] = 0 THEN Unpulled
        ELSE RAdd(emp_means[a],
                  RMul(RSqrt(emp_vars[a]),
                       RSqrt(RDiv(RMul(RInt(4), RLog(T)),
                                  RMul(RInt(counts[a]), Correction(counts[a]))))))]

standard_ucb_values ==
    [a \in range(K) |->
        IF counts[a] = 0 THEN Unpulled
        ELSE RAdd(emp_means[a],
                  RSqrt(RDiv(RMul(RInt(4), RLog(T)), RInt(counts[a]))))]

\* emp_means[arm] += (reward - emp_means[arm]) / counts[arm]
MeanUpdate(m, reward, n) == RAdd(m, RDiv(RSub(reward, m), RInt(n)))

\* M2[arm] += delta * delta: the deviation from the old mean taken twice
M2UpdateStale(m2, delta, reward, new_mean) == RAdd(m2, RMul(delta, delta))

\* M2[arm] += delta * (reward - emp_means[arm])
M2Update(m2, delta, reward, new_mean) ==
    RAdd(m2, RMul(delta, RSub(reward, new_mean)))

\* if n > 1: emp_vars[arm] = M2[arm] / (n - 1)
VarUpdate(v, m2, n) == IF n > 1 THEN RDiv(m2, RInt(n - 1)) ELSE v

\* the gap taken with the wrong sign
RegretUpdateSwapped(reg, round, arm, reward) ==
    [reg EXCEPT ![round] = RAdd(reg[round - 1], RSub(means[arm], means[best_arm]))]

\* the sum written one index too low
RegretUpdateOffByOne(reg, round, arm, reward) ==
    [reg EXCEPT ![round - 1] = RAdd(reg[round - 1], RSub(means[best_arm], means[arm]))]

\* the gap taken to the sampled reward instead of the arm's mean
RegretUpdateRealised(reg, round, arm, reward) ==
    [reg EXCEPT ![round] = RAdd(reg[round - 1], RSub(means[best_arm], reward))]

\* regret[t] = regret[t - 1] + (means[best_arm] - means[arm])
RegretUpdate(reg, round, arm, reward) ==
    [reg EXCEPT ![round] = RAdd(reg[round - 1], RSub(means[best_arm], means[arm]))]

RECURSIVE ColumnSum(_, _, _)
ColumnSum(m, rows, col) ==
    IF rows = {} THEN Zero
    ELSE LET r == CHOOSE r \in rows : TRUE
         IN  RAdd(m[r][col], ColumnSum(m, rows \ {r}, col))

\* the column sums divided by one more than the number of rows
MeanOffByOne(m) ==
    [col \in 0..T |-> RDiv(ColumnSum(m, DOMAIN m, col), RInt(Cardinality(DOMAIN m) + 1))]

\* np.mean(m, axis=0)
Mean(m) ==
    [col \in 0..T |-> RDiv(ColumnSum(m, DOMAIN m, col), RInt(Cardinality(DOMAIN m)))]

\* np.std(m, axis=0): sqrt of the mean squared deviation from the mean
Std(m) ==
    LET avg == Mean(m)
        dev == [r \in DOMAIN m |->
                   [col \in 0..T |-> RMul(RSub(m[r][col], avg[col]),
                                          RSub(m[r][col], avg[col]))]]
    IN  [col \in 0..T |-> RSqrt(Mean(dev)[col])]

\* row r of a matrix assigned; rows never assigned hold what np.empty left
SetRow(m, r, row) ==
    [q \in DOMAIN m \cup {r} |-> IF q = r THEN row ELSE m[q]]

(***************************************************************************)
(* Initial states.                                                         *)
(***************************************************************************)
NoRun ==
    /\ i = 0
    /\ t = 0
    /\ counts = <<>> /\ emp_means = <<>> /\ emp_vars = <<>> /\ M2 = <<>>
    /\ regret = <<>> /\ pulls = <<>> /\ samples = <<>> /\ correction = <<>>
    /\ known_regrets = <<>> /\ unknown_regrets = <<>> /\ standard_regrets = <<>>
    /\ known_avg = <<>> /\ known_std = <<>>
    /\ unknown_avg = <<>> /\ unknown_std = <<>>
    /\ standard_avg = <<>> /\ standard_std = <<>>

\* the script started with its command line
Init ==
    /\ pc = "parse"
    /\ args \in [K : -1..MaxK, var : VarArgs]
    /\ T \in 1..MaxT
    /\ N_EXPERIMENTS \in 1..MaxN
    /\ K = 0 /\ vmin = 0 /\ vmax = 0
    /\ means = <<>> /\ variances = <<>> /\ best_arm = 0
    /\ NoRun

\* the experiment loop entered on an instance handed in directly
InitInjected ==
    /\ pc = "call_known"
    /\ \/ K \in 1..MaxK /\ T \in 1..UnitT
       \/ K = 1 /\ T = LongT
    /\ args = [K |-> K, var |-> "low"]
    /\ N_EXPERIMENTS = 1
    /\ vmin = 0 /\ vmax = 0
    /\ means \in [range(K) -> MeanVals]
    /\ variances \in [range(K) -> InjectedVarVals]
    /\ best_arm = ArgMax(means)
    /\ NoRun

(***************************************************************************)
(* The script.                                                             *)
(***************************************************************************)
\* parser.parse_args() and the parameter settings
ParseArgs ==
    /\ pc = "parse"
    /\ IF args.var \notin choices
       THEN /\ pc' = "error"
            /\ UNCHANGED <<K, vmin, vmax>>
       ELSE /\ K' = args.K
            /\ vmin' = variance_levels[args.var][1]
            /\ vmax' = variance_levels[args.var][2]
            /\ pc' = "generate"
    /\ UNCHANGED <<args, T, N_EXPERIMENTS, instance, i, locals, matrices, aggregates>>

\* generate the problem instance
GenerateInstance ==
    /\ pc = "generate"
    /\ \E m \in [range(K) -> MeanVals], v \in [range(K) -> VarVals(vmin, vmax)] :
        /\ means' = m
        /\ variances' = v
        /\ IF ArgMaxRaises(m)
           THEN pc' = "error" /\ UNCHANGED best_arm
           ELSE pc' = "call_known" /\ best_arm' = ArgMax(m)
    /\ UNCHANGED <<settings, i, locals, matrices, aggregates>>

\* the first lines of a policy call: fresh locals
Call(policy) ==
    /\ pc = "call_" \o policy
    /\ pc' = policy
    /\ t' = 0
    /\ counts' = [a \in range(K) |-> 0]
    /\ emp_means' = zeros(range(K))
    /\ emp_vars' = IF policy = "unknown" THEN ones(range(K)) ELSE <<>>
    /\ M2' = IF policy = "unknown" THEN zeros(range(K)) ELSE <<>>
    /\ regret' = zeros(0..T)
    /\ pulls' = <<>>
    /\ samples' = [a \in range(K) |-> EmptyBag]
    /\ correction' = <<>>
    /\ UNCHANGED <<settings, instance, i, matrices, aggregates>>

KnownCall == Call("known")

UnknownCall == Call("unknown")

StandardCall == Call("standard")

\* one round of known_variance_ucb
\* (\E x \in {e} names the value of e, as the assignment x = e does)
KnownRound ==
    /\ pc = "known"
    /\ t < T
    /\ \E arm \in {ArgMax(known_ucb_values)}, z \in Noise :
        \E reward \in {Normal(means[arm], RSqrt(variances[arm]), z)} :
            /\ counts' = [counts EXCEPT ![arm] = @ + 1]
            /\ emp_means' = [emp_means EXCEPT ![arm] = MeanUpdate(@, reward, counts[arm] + 1)]
            /\ regret' = RegretUpdate(regret, t + 1, arm, reward)
            /\ pulls' = Append(pulls, arm)
            /\ samples' = [samples EXCEPT ![arm] = @ (+) SetToBag({reward})]
    /\ t' = t + 1
    /\ UNCHANGED <<pc, settings, instance, i, emp_vars, M2, correction, matrices, aggregates>>

\* one round of unknown_variance_ucb
UnknownRound ==
    /\ pc = "unknown"
    /\ t < T
    /\ correction' = [a \in {b \in range(K) : counts[b] # 0} |->
                        [n |-> counts[a], correction |-> Correction(counts[a])]]
    /\ \E arm \in {ArgMax(unknown_ucb_values)}, z \in Noise :
        \E reward \in {Normal(means[arm], RSqrt(variances[arm]), z)}, n \in {counts[arm] + 1} :
        \E delta \in {RSub(reward, emp_means[arm])} :
        \E new_mean \in {RAdd(emp_means[arm], RDiv(delta, RInt(n)))} :
        \E new_M2 \in {M2Update(M2[arm], delta, reward, new_mean)} :
            /\ counts' = [counts EXCEPT ![arm] = n]
            /\ emp_means' = [emp_means EXCEPT ![arm] = new_mean]
            /\ M2' = [M2 EXCEPT ![arm] = new_M2]
            /\ emp_vars' = [emp_vars EXCEPT ![arm] = VarUpdate(@, new_M2, n)]
            /\ regret' = RegretUpdate(regret, t + 1, arm, reward)
            /\ pulls' = Append(pulls, arm)
            /\ samples' = [samples EXCEPT ![arm] = @ (+) SetToBag({reward})]
    /\ t' = t + 1
    /\ UNCHANGED <<pc, settings, instance, i, matrices, aggregates>>

\* one round of standard_ucb
StandardRound ==
    /\ pc = "standard"
    /\ t < T
    /\ \E arm \in {ArgMax(standard_ucb_values)}, z \in Noise :
        \E reward \in {Normal(means[arm], RSqrt(variances[arm]), z)} :
            /\ counts' = [counts EXCEPT ![arm] = @ + 1]
            /\ emp_means' = [emp_means EXCEPT ![arm] = MeanUpdate(@, reward, counts[arm] + 1)]
            /\ regret' = RegretUpdate(regret, t + 1, arm, reward)
            /\ pulls' = Append(pulls, arm)
            /\ samples' = [samples EXCEPT ![arm] = @ (+) SetToBag({reward})]
    /\ t' = t + 1
    /\ UNCHANGED <<pc, settings, instance, i, emp_vars, M2, correction, matrices, aggregates>>

\* the locals of a policy call are gone when it returns
Discard ==
    /\ t' = 0
    /\ counts' = <<>> /\ emp_means' = <<>> /\ emp_vars' = <<>> /\ M2' = <<>>
    /\ regret' = <<>> /\ pulls' = <<>> /\ samples' = <<>> /\ correction' = <<>>

\* known_regrets[i] = known_variance_ucb(...)
KnownReturn ==
    /\ pc = "known"
    /\ t = T
    /\ known_regrets' = SetRow(known_regrets, i, regret)
    /\ pc' = "call_unknown"
    /\ Discard
    /\ UNCHANGED <<settings, instance, i, unknown_regrets, standard_regrets, aggregates>>

\* unknown_regrets[i] = unknown_variance_ucb(...)
UnknownReturn ==
    /\ pc = "unknown"
    /\ t = T
    /\ unknown_regrets' = SetRow(unknown_regrets, i, regret)
    /\ pc' = "call_standard"
    /\ Discard
    /\ UNCHANGED <<settings, instance, i, known_regrets, standard_regrets, aggregates>>

\* standard_regrets[i] = standard_ucb(...), and the next trial or the end of the loop
StandardReturn ==
    /\ pc = "standard"
    /\ t = T
    /\ standard_regrets' = SetRow(standard_regrets, i, regret)
    /\ i' = i + 1
    /\ pc' = IF i + 1 < N_EXPERIMENTS THEN "call_known" ELSE "aggregate"
    /\ Discard
    /\ UNCHANGED <<settings, instance, known_regrets, unknown_regrets, aggregates>>

\* averages and standard deviations
Aggregate ==
    /\ pc = "aggregate"
    /\ known_avg' = Mean(known_regrets)
    /\ known_std' = Std(known_regrets)
    /\ unknown_avg' = Mean(unknown_regrets)
    /\ unknown_std' = Std(unknown_regrets)
    /\ standard_avg' = Mean(standard_regrets)
    /\ standard_std' = Std(standard_regrets)
    /\ pc' = "done"
    /\ UNCHANGED <<settings, instance, i, locals, matrices>>

Experiments ==
    \/ KnownCall \/ KnownRound \/ KnownReturn
    \/ UnknownCall \/ UnknownRound \/ UnknownReturn
    \/ StandardCall \/ StandardRound \/ StandardReturn
    \/ Aggregate

Next == ParseArgs \/ GenerateInstance \/ Experiments

\* the whole script, from its command line
Spec == Init /\ [][Next]_vars

\* the experiment loop on an injected instance
SpecInjected == InitInjected /\ [][Experiments]_vars
(***************************************************************************)
(* Properties.                                                             *)
(***************************************************************************)
\* a policy call is running
InCall == pc \in {"known", "unknown", "standard"}

\* the regret traces returned so far
Rows(m) == {m[r] : r \in DOMAIN m}

Returned == Rows(known_regrets) \cup Rows(unknown_regrets) \cup Rows(standard_regrets)

\* C1: in each of the three policies cumulative regret never decreases from
\* one round to the next, and so is never negative: over the rounds played
\* so far of the running call, and over every round 1..T of every returned
\* trace.
C1_RegretMonotone ==
    /\ InCall => \A r \in 1..t : RLe(regret[r - 1], regret[r]) /\ RLe(Zero, regret[r])
    /\ \A row \in Returned :
        \A r \in 1..T : RLe(row[r - 1], row[r]) /\ RLe(Zero, row[r])

\* a returned trace that rose and then stayed level
C1_Witness ==
    \E row \in Returned :
        \E r, q \in 1..T : RLt(row[r - 1], row[r]) /\ row[q - 1] = row[q]

\* C2: in each policy an arm never pulled has index +infinity, the first K
\* rounds pull arms 0, 1, ..., K-1 in that order whatever the rewards, and no
\* arm is pulled twice before every arm was pulled once.
C2_BootstrapOrder ==
    InCall =>
        /\ \A r \in 1..Len(pulls) : r <= K => pulls[r] = r - 1
        /\ (\E a \in range(K) : counts[a] > 1) => \A b \in range(K) : counts[b] >= 1
        /\ \A a \in range(K) :
            counts[a] = 0 =>
                /\ known_ucb_values[a] = Inf
                /\ unknown_ucb_values[a] = Inf
                /\ standard_ucb_values[a] = Inf

\* the bootstrap of a two-armed instance just completed, on rewards that
\* were not the arms' means
C2_Witness ==
    /\ InCall
    /\ K = 2
    /\ Len(pulls) = K
    /\ \A a \in range(K) : emp_means[a] # means[a]

\* the sum of the rewards of bag B that lie in S, each taken as often as it
\* was drawn
RECURSIVE BagSum(_, _)
BagSum(B, S) ==
    IF S = {} THEN Zero
    ELSE LET r == CHOOSE r \in S : TRUE
         IN  RAdd(RMul(RInt(B[r]), r), BagSum(B, S \ {r}))

\* the sum of the squared deviations from m of the rewards of B that lie in S
RECURSIVE BagSquares(_, _, _)
BagSquares(B, S, m) ==
    IF S = {} THEN Zero
    ELSE LET r == CHOOSE r \in S : TRUE
         IN  RAdd(RMul(RInt(B[r]), RMul(RSub(r, m), RSub(r, m))),
                  BagSquares(B, S \ {r}, m))

\* the two-pass unbiased sample variance of two or more rewards: their mean
\* first, then the squared deviations from it over n - 1
SampleVariance(B) ==
    RDiv(BagSquares(B, BagToSet(B),
                    RDiv(BagSum(B, BagToSet(B)), RInt(BagCardinality(B)))),
         RInt(BagCardinality(B) - 1))

\* C3: in unknown_variance_ucb, after every round and for every arm: while
\* the arm was pulled at most once its empirical variance is the prior 1;
\* once it was pulled n > 1 times the empirical variance is M2/(n-1), and
\* that is the unbiased sample variance of exactly the rewards drawn from it.
C3_WelfordVariance ==
    pc = "unknown" =>
        \A a \in range(K) :
            /\ BagCardinality(samples[a]) = counts[a]
            /\ counts[a] <= 1 => emp_vars[a] = One
            /\ counts[a] > 1 =>
                /\ emp_vars[a] = RDiv(M2[a], RInt(counts[a] - 1))
                /\ emp_vars[a] = SampleVariance(samples[a])

\* five rewards drawn from one arm, three of them different
C3_Witness ==
    /\ pc = "unknown"
    /\ \E a \in range(K) :
        /\ counts[a] = 5
        /\ Cardinality(BagToSet(samples[a])) = 3
        /\ emp_vars[a] # One

\* the regret added over rounds lo..hi by pulling `arm` in each of them
RECURSIVE gap_sum(_, _, _)
gap_sum(lo, hi, arm) ==
    IF lo > hi THEN Zero
    ELSE IF lo = hi THEN RSub(means[best_arm], means[arm])
    ELSE RAdd(gap_sum(lo, (lo + hi) \div 2, arm),
              gap_sum(((lo + hi) \div 2) + 1, hi, arm))

\* the final regret of the policy that pulls `arm` in every one of `rounds` rounds
naive_regret(rounds, arm) == gap_sum(1, rounds, arm)

\* the instance of the end-to-end scenario: means [0.8, 0.2], variances [1, 1]
Scenario ==
    /\ K = 2
    /\ means = [a \in range(2) |-> IF a = 0 THEN <<4, 5>> ELSE <<1, 5>>]
    /\ variances = [a \in range(2) |-> One]

\* C4: on the instance K=2, means [0.8, 0.2], variances [1, 1], the mean
\* regret trace of standard_ucb ends strictly below the final regret of the
\* policy that pulls arm 1 in every round; that baseline ends at T * 0.6,
\* which is exactly 600 at T = 1000.
C4_BeatsNaive ==
    (Scenario /\ pc = "done") =>
        /\ RLt(standard_avg[T], naive_regret(T, 1))
        /\ naive_regret(T, 1) = RMul(RInt(T), <<3, 5>>)
        /\ naive_regret(1000, 1) = RInt(600)

\* the scenario run to its end with the most trials and the longest horizon,
\* standard_ucb having pulled the worse arm beyond the bootstrap
C4_Witness ==
    /\ Scenario
    /\ pc = "done"
    /\ T = MaxT
    /\ N_EXPERIMENTS = MaxN
    /\ RLt(<<3, 5>>, standard_avg[T])

\* every arm's true variance is 0: each reward is the arm's true mean
Deterministic == \A a \in range(K) : variances[a] = Zero

\* what pulling every arm once costs: the sum of the gaps to the best arm
RECURSIVE bootstrap_cost(_)
bootstrap_cost(S) ==
    IF S = {} THEN Zero
    ELSE LET a == CHOOSE a \in S : TRUE
         IN  RAdd(RSub(means[best_arm], means[a]), bootstrap_cost(S \ {a}))

\* C5: in known_variance_ucb on an instance whose variances are all 0, with
\* T >= K: every round after the K bootstrap rounds pulls best_arm, and the
\* cumulative regret is the bootstrap cost at round K and at every later
\* round, in the running call and in the returned trace.
C5_ZeroVarianceSettles ==
    (Deterministic /\ T >= K) =>
        /\ pc = "known" =>
            /\ \A r \in (K + 1)..Len(pulls) : pulls[r] = best_arm
            /\ \A r \in K..t : regret[r] = bootstrap_cost(range(K))
        /\ \A row \in Rows(known_regrets) :
            \A r \in K..T : row[r] = bootstrap_cost(range(K))

\* two arms without noise, the second one the best, and the longest horizon
\* played to its end
C5_Witness ==
    /\ Deterministic
    /\ pc = "known"
    /\ K = 2
    /\ best_arm = 1
    /\ T = UnitT
    /\ t = T

\* C6: index 0 of the regret trace is 0 at every point of every policy call
\* and in every returned trace.
C6_RegretStartsAtZero ==
    /\ InCall => regret[0] = Zero
    /\ \A row \in Returned : row[0] = Zero

\* a call played to its last round whose first round already cost regret
C6_Witness ==
    /\ InCall
    /\ t = T
    /\ T = MaxT
    /\ RLt(Zero, regret[1])

\* C7: in every policy and every round played, the regret added by the
\* round is the gap between the best arm's true mean and the true mean of
\* the arm chosen in that round, whatever reward was sampled.
C7_RegretFromArmsAlone ==
    InCall =>
        \A r \in 1..t :
            RSub(regret[r], regret[r - 1]) = RSub(means[best_arm], means[pulls[r]])

\* a worse arm pulled twice with two different rewards
C7_Witness ==
    /\ InCall
    /\ \E a \in range(K) :
        /\ means[a] # means[best_arm]
        /\ counts[a] = 2
        /\ Cardinality(BagToSet(samples[a])) = 2

\* C8: with a single trial, each policy's mean trace is that trial's trace
\* at every round index 0..T, and each standard-deviation trace is 0 at
\* every round index.
C8_SingleTrialAggregate ==
    (pc = "done" /\ N_EXPERIMENTS = 1) =>
        /\ known_avg = known_regrets[0]
        /\ unknown_avg = unknown_regrets[0]
        /\ standard_avg = standard_regrets[0]
        /\ known_std = zeros(0..T)
        /\ unknown_std = zeros(0..T)
        /\ standard_std = zeros(0..T)

\* a single trial aggregated, whose three traces all end above 0
C8_Witness ==
    /\ pc = "done"
    /\ N_EXPERIMENTS = 1
    /\ RLt(Zero, known_avg[T])
    /\ RLt(Zero, unknown_avg[T])
    /\ RLt(Zero, standard_avg[T])

\* the command line is a configuration error: no arm, or no such regime
ConfigError == args.K <= 0 \/ args.var \notin choices

C10_CorrectionPositive ==
    pc = "unknown" =>
        \A a \in DOMAIN correction :
            /\ correction[a].n >= 1
            /\ correction[a].correction =
                   (IF RLt(Eps, Shrinkage(correction[a].n))
                    THEN Shrinkage(correction[a].n) ELSE Eps)
            /\ RLe(Eps, correction[a].correction)
            /\ RLt(Zero, correction[a].correction)
            /\ RLt(Zero, RMul(RInt(correction[a].n), correction[a].correction))

\* an index computed where 1 - 2*sqrt(2*ln(T)/n) is negative
C10_Witness ==
    /\ pc = "unknown"
    /\ \E a \in DOMAIN correction :
        /\ RLt(Shrinkage(correction[a].n), Zero)
        /\ correction[a].correction = Eps

\* an index computed where the correction is above its floor
C10_Unclamped ==
    /\ pc = "unknown"
    /\ \E a \in DOMAIN correction : RLt(Eps, correction[a].correction)
====
